---- MODULE Spec2Model ----
(***************************************************************************)
(* Model of the Infinity backend (src/backend).                            *)
(*                                                                         *)
(*  - AIProcessor._run_raw / generate_scope / generate_framework           *)
(*    (ai_processor.py): the recovery cascade around one gateway call,     *)
(*    its escalation to the fallback model and its back-off sleeps.        *)
(*  - ValidationEngine (validation_engine.py): the FAISS index, its        *)
(*    parallel metadata list and the two files they are persisted to.      *)
(*                                                                         *)
(* Model text is a sequence of tokens; each token stands for a fixed       *)
(* substring of the model's output (named next to TextTokens).             *)
(***************************************************************************)
EXTENDS Integers, Sequences, FiniteSets, TLC

VARIABLES
    \* ---- AIProcessor: one request through generate_scope/_framework ----
    pc,            \* "idle" | "attempt" (a _run_raw frame is about to run) | "done"
    caller,        \* "generate_scope" | "generate_framework" | "none"
    provider,      \* AIProcessor.provider
    is_retry,      \* argument of the current _run_raw frame
    use_fallback,  \* argument of the current _run_raw frame
    depth,         \* number of _run_raw frames entered by this request
    trace,         \* gateway invocations and time.sleep calls, in order
    repair_calls,  \* number of fallback_llm.invoke calls made by repair_json
    content,       \* local `content` of the last frame, after strategies 0-2
    raw,           \* what the outermost _run_raw returned or raised
    result,        \* what the caller of generate_* receives
    \* ---- ValidationEngine: instances over one persist_directory ----
    disk_index,    \* index.faiss : "absent" or the sequence of stored vectors
    disk_meta,     \* metadata.pkl: "absent", "corrupt" or the pickled list
    index,         \* [engine -> self.index], a sequence of vectors
    metadata,      \* [engine -> self.metadata]
    epc,           \* [engine -> position inside the running method]
    status,        \* [engine -> outcome of the engine's last method]
    pre_index,     \* [engine -> self.index when the last add was entered]
    pre_meta,      \* [engine -> self.metadata when the last add was entered]
    clock,         \* int(time.time())
    adds,          \* number of add_reference_doc calls started so far
    query,         \* the last retrieval call and what it returned
    \* ---- AIProcessor.merge_scopes / merge_frameworks ----
    merge_in,      \* the two records handed to the merge
    merged         \* what the merge returned

cascadeVars == <<pc, caller, provider, is_retry, use_fallback, depth, trace,
                 repair_calls, content, raw, result>>
storeVars   == <<disk_index, disk_meta, index, metadata, epc, status,
                 pre_index, pre_meta, clock, adds>>
queryVars   == <<query>>
mergeVars   == <<merge_in, merged>>
vars        == <<cascadeVars, storeVars, queryVars, mergeVars>>

(***************************************************************************)
(* Generic helpers on sequences.                                           *)
(***************************************************************************)
Contains(s, x) == \E i \in 1..Len(s) : s[i] = x

\* index of the first / last occurrence of x in s, 0 when absent
\* (str.find / str.rfind return -1; positions here are 1-based)
Find(s, x)  == IF Contains(s, x)
               THEN CHOOSE i \in 1..Len(s) : s[i] = x /\ \A j \in 1..(i-1) : s[j] # x
               ELSE 0
RFind(s, x) == IF Contains(s, x)
               THEN CHOOSE i \in 1..Len(s) : s[i] = x /\ \A j \in (i+1)..Len(s) : s[j] # x
               ELSE 0

Slice(s, a, b) == IF a > b THEN <<>> ELSE SubSeq(s, a, b)

(***************************************************************************)
(* Text tokens.                                                            *)
(*   NL     "\n"                     SP     a blank other than "\n"        *)
(*   HEAD   "## " at line start      RULE   "---" / "***"                  *)
(*   EMOJI  one of the emojis of the pre-clean character class             *)
(*   DASH   "-"                      PIPE   "|"                            *)
(*   PROSE  words with none of the characters above                        *)
(*   FJ     "```json"                F      "```"                          *)
(*   LB     "{"                      RB     "}"                            *)
(*   PROPS  "\"properties\":"                                              *)
(*   E429   the words "429 rate limit"                                     *)
(*   SCOPE_ACME, SCOPE_BETA  the members of a JSON scope object            *)
(*   FW_ALPHA                the members of a JSON framework object        *)
(***************************************************************************)
Whitespace == {"NL", "SP"}
ScopeBodies == {"SCOPE_ACME", "SCOPE_BETA"}
FrameworkBodies == {"FW_ALPHA"}
TextTokens == {"NL", "SP", "HEAD", "RULE", "EMOJI", "DASH", "PIPE", "PROSE",
               "FJ", "F", "LB", "RB", "PROPS", "E429"} \cup ScopeBodies \cup FrameworkBodies

\* str.strip()
RECURSIVE LStrip(_)
LStrip(s) == IF s # <<>> /\ Head(s) \in Whitespace THEN LStrip(Tail(s)) ELSE s
RECURSIVE RStrip(_)
RStrip(s) == IF s # <<>> /\ s[Len(s)] \in Whitespace
             THEN RStrip(SubSeq(s, 1, Len(s) - 1)) ELSE s
Strip(s) == RStrip(LStrip(s))

\* str.split(sep) for a one-token separator: the pieces between occurrences
RECURSIVE Split(_, _)
Split(s, sep) ==
    IF ~Contains(s, sep) THEN <<s>>
    ELSE LET i == Find(s, sep)
         IN  <<Slice(s, 1, i - 1)>> \o Split(Slice(s, i + 1, Len(s)), sep)

\* '\n'.join(lines)
RECURSIVE Join(_)
Join(ls) == IF ls = <<>> THEN <<>>
            ELSE IF Len(ls) = 1 THEN ls[1]
            ELSE ls[1] \o <<"NL">> \o Join(Tail(ls))

(***************************************************************************)
(* _run_raw, strategies 0-2: the cleaning applied to res.content.          *)
(***************************************************************************)
\* first token of the line after leading blanks ("^\s*"), "" when none
FirstNonSpace(line) == LET r == LStrip(line) IN IF r = <<>> THEN "" ELSE Head(r)

\* the three `continue` tests of the pre-clean loop: a line is dropped when it
\* is a heading ("^#+\s+"), a rule ("^\s*[-*]{3,}"), holds an emoji, is blank,
\* or starts like a table row or separator ("^\s*(-+|\|+|\s*\|)")
SkipLine(line) ==
    \/ (line # <<>> /\ Head(line) = "HEAD")
    \/ FirstNonSpace(line) = "RULE"
    \/ Contains(line, "EMOJI")
    \/ Strip(line) = <<>>
    \/ FirstNonSpace(line) \in {"DASH", "PIPE", "RULE"}

RECURSIVE CleanLines(_)
CleanLines(ls) ==
    IF ls = <<>> THEN <<>>
    ELSE IF SkipLine(Head(ls)) THEN CleanLines(Tail(ls))
    ELSE <<Strip(Head(ls))>> \o CleanLines(Tail(ls))

\* STRATEGY 0: content = '\n'.join(cleaned_lines)
PreClean(text) == Join(CleanLines(Split(text, "NL")))

\* the tokens that hold "```"
Fences == {"F", "FJ"}

\* s.split("```")[0]: s up to its first "```", which may be that of a "```json"
BeforeFence(s) ==
    IF \E i \in 1..Len(s) : s[i] \in Fences
    THEN Slice(s, 1, (CHOOSE i \in 1..Len(s) :
                        s[i] \in Fences /\ \A j \in 1..(i-1) : s[j] \notin Fences) - 1)
    ELSE s

\* STRATEGY 1: "```json" is looked for first, a bare "```" only when the text
\* has no "```json"
UnwrapFence(text) ==
    IF Contains(text, "FJ")
    THEN Strip(BeforeFence(Split(text, "FJ")[2]))
    ELSE IF Contains(text, "F")
    THEN Strip(Split(text, "F")[2])
    ELSE text

\* STRATEGY 2: content[first_brace:last_brace+1].  In the else branch the
\* search for "\{[^{}]*\}" cannot match: a match would put a "{" before a "}",
\* which is the condition of the then branch; content is left as it is.
BraceBound(text) ==
    LET first_brace == Find(text, "LB")
        last_brace  == RFind(text, "RB")
    IN  IF first_brace # 0 /\ last_brace # 0 /\ last_brace > first_brace
        THEN Slice(text, first_brace, last_brace)
        ELSE text

CleanContent(text) == BraceBound(UnwrapFence(PreClean(text)))

(***************************************************************************)
(* The two record schemas and the records the code builds itself.          *)
(***************************************************************************)
ScopeDocument(title, objectives, scope_in, scope_out, navigation, gap_analysis, recs) ==
    [project_title |-> title, objectives |-> objectives, scope_in |-> scope_in,
     scope_out |-> scope_out, navigation |-> navigation,
     gap_analysis |-> gap_analysis, strategic_recommendations |-> recs]

HeaderNavItem(main_nav, dropdown, final_destination, page_type, page_description, key_sections) ==
    [main_nav |-> main_nav, dropdown |-> dropdown,
     final_destination |-> final_destination, page_type |-> page_type,
     page_description |-> page_description, key_sections |-> key_sections,
     content_type |-> "Copy", content_link |-> "", status |-> "Not Started",
     client_notes |-> ""]

FooterNavItem(menu_title, nested_items, page_description, key_sections) ==
    [menu_title |-> menu_title, nested_items |-> nested_items,
     page_type |-> "Menu", page_description |-> page_description,
     key_sections |-> key_sections, content_type |-> "Copy",
     content_link |-> "", status |-> "Not Started", client_notes |-> ""]

WebsiteAsset(asset_required, description, content_type) ==
    [asset_required |-> asset_required, description |-> description,
     content_type |-> content_type, content_link |-> "",
     status |-> "Not Started", client_notes |-> ""]

ContentFramework(header_nav, footer_nav, website_assets, cta_strategy) ==
    [header_nav |-> header_nav, footer_nav |-> footer_nav,
     website_assets |-> website_assets, cta_strategy |-> cta_strategy]

\* the record _run_raw returns right after strategy 2
HardcodedFramework ==
    ContentFramework(
        << HeaderNavItem("Home", "", "Homepage", "Main Page",
                         "Project landing page", "Hero Section, Features Grid"),
           HeaderNavItem("Shop", "Category 1, Category 2", "Shop Page", "Menu",
                         "Links to shop categories", "Social Icons") >>,
        << FooterNavItem("Shop", "Category 1, Category 2",
                         "Links to shop categories", "Social Icons"),
           FooterNavItem("About", "Our Story, FAQs",
                         "Company information page", ""),
           FooterNavItem("Contact Support", "Contact Form, Support Email",
                         "Links to contact support pages", "") >>,
        << WebsiteAsset("Logo", "High-res SVG logo", "Branding"),
           WebsiteAsset("Product Imagery", "Product images for online store",
                        "Product Media") >>,
        "Strategic call to action text to encourage users to download and use the app.")

\* the record generate_framework returns from its except branch
MinimalFramework ==
    ContentFramework(<<>>, <<>>, <<>>, "Generated by fallback due to parsing error.")

\* a ContentFramework built from no field at all: every field has a default
DefaultFramework == ContentFramework(<<>>, <<>>, <<>>, "")

(***************************************************************************)
(* parser.parse: the text must be one JSON object; a ScopeDocument needs   *)
(* its six required fields, a ContentFramework has a default for every     *)
(* field and ignores the members it does not know.                         *)
(***************************************************************************)
ScopeOf(body) ==
    IF body = "SCOPE_ACME"
    THEN ScopeDocument("Acme Site", <<"Grow signups", "Grow signups">>,
                       <<>>, <<>>, <<>>, <<>>, <<>>)
    ELSE ScopeDocument("Beta Shop", <<"Sell more">>, <<"Checkout">>, <<"Blog">>,
                       <<"Home", "Shop">>, <<"No budget given">>, <<"Add reviews">>)

FrameworkOf(body) ==
    ContentFramework(
        << HeaderNavItem("Home", "", "Homepage", "Main Page", "Landing", "Hero") >>,
        <<>>,
        << WebsiteAsset("Logo", "Vector logo", "Branding") >>,
        "Book a demo")

ParseError == [error |-> "OutputParserException"]

IsJsonObject(text) ==
    \/ text = <<"LB", "RB">>
    \/ /\ Len(text) = 3
       /\ text[1] = "LB"
       /\ text[2] \in ScopeBodies \cup FrameworkBodies
       /\ text[3] = "RB"

Parse(text, schema) ==
    IF ~IsJsonObject(text) THEN ParseError
    ELSE IF schema = "ScopeDocument"
    THEN IF Len(text) = 3 /\ text[2] \in ScopeBodies THEN ScopeOf(text[2]) ELSE ParseError
    ELSE IF Len(text) = 3 /\ text[2] \in FrameworkBodies THEN FrameworkOf(text[2])
    ELSE DefaultFramework

(***************************************************************************)
(* The gateway: what active_llm.invoke can do.                             *)
(***************************************************************************)
\* texts a model can answer with
GatewayTexts ==
    { <<"LB", "SCOPE_ACME", "RB">>,
      <<"PROSE", "NL", "FJ", "NL", "LB", "SCOPE_ACME", "RB", "NL", "F", "NL", "PROSE">>,
      <<"LB", "SCOPE_BETA", "RB">>,
      <<"HEAD", "PROSE", "NL", "LB", "FW_ALPHA", "RB">>,
      <<"F", "NL", "LB", "FW_ALPHA", "RB", "NL", "F">>,
      <<"F", "NL", "PROSE", "NL", "F", "NL", "FJ", "NL", "LB", "SCOPE_BETA", "RB", "NL", "F">>,
      <<"LB", "PROPS", "LB", "RB", "RB">>,
      <<"LB", "RB", "NL", "PROSE", "NL", "LB", "SCOPE_ACME", "RB">>,
      <<"HEAD", "PROSE", "NL", "DASH", "PROSE", "NL", "PROSE">>,
      <<"PROSE", "SP", "E429">>,
      <<>> }

\* messages of the exceptions invoke can raise, as sequences of words
GatewayErrors ==
    { <<"Error code:", "429">>,
      <<"Rate Limit", "reached">>,
      <<"Connection", "timed out">> }

\* str.lower(), word by word
Lower(w) ==
    CASE w = "Error code:" -> "error code:"
      [] w = "Rate Limit"  -> "rate limit"
      [] w = "Connection"  -> "connection"
      [] OTHER             -> w

LowerMsg(msg) == [i \in 1..Len(msg) |-> Lower(msg[i])]

\* a test every message passes
IsRateLimit_any(msg) == TRUE

\* "429" in error_msg or "rate limit" in error_msg
IsRateLimit(msg) ==
    Contains(LowerMsg(msg), "429") \/ Contains(LowerMsg(msg), "rate limit")

\* random.uniform(20, 40), in whole seconds
BackoffMin == 20
BackoffMax == 40
ExtraSleep == 10

Providers == {"groq", "gemini", "hybrid"}

\* AIProcessor.__init__: self.llm
Llm(prov) == IF prov = "gemini" THEN "gemini_llm" ELSE "primary_llm"

ModelName(llm) ==
    CASE llm = "primary_llm"  -> "llama-3.3-70b-versatile"
      [] llm = "fallback_llm" -> "llama-3.1-8b-instant"
      [] llm = "gemini_llm"   -> "gemini-1.5-flash-latest"

\* the deprecated model name is replaced before the call
NormalizeModel(name) ==
    IF name = "llama-3.1-70b-versatile" THEN "llama-3.3-70b-versatile" ELSE name

\* a choice that never leaves self.llm
ActiveLlm_primary(prov, fallback) == Llm(prov)

\* active_llm = self.llm, or self.fallback_llm when use_fallback
ActiveLlm(prov, fallback) == IF fallback THEN "fallback_llm" ELSE Llm(prov)

(***************************************************************************)
(* Outcomes of a call and events of the trace.                             *)
(***************************************************************************)
Return(type, value) == [kind |-> "return", type |-> type, value |-> value]
Raise(type, message) == [kind |-> "raise", type |-> type, value |-> [message |-> message]]
NoOutcome == [kind |-> "none", type |-> "", value |-> [message |-> ""]]

InvokeEvent(llm, retry, outcome, text, error) ==
    [ev |-> "invoke", llm |-> llm, model |-> NormalizeModel(ModelName(llm)),
     is_retry |-> retry, outcome |-> outcome, text |-> text, error |-> error,
     secs |-> 0]
SleepEvent(retry, secs) ==
    [ev |-> "sleep", llm |-> "", model |-> "", is_retry |-> retry,
     outcome |-> "", text |-> <<>>, error |-> <<>>, secs |-> secs]

IsInvoke(e) == e.ev = "invoke"
IsSleep(e)  == e.ev = "sleep"
Calls  == SelectSeq(trace, IsInvoke)
Sleeps == SelectSeq(trace, IsSleep)

\* the parser each entry point hands to _run_raw
TargetSchema(c) == IF c = "generate_scope" THEN "ScopeDocument" ELSE "ContentFramework"

(***************************************************************************)
(* _run_raw, the except handler.                                           *)
(***************************************************************************)
\* `if not is_retry:` (both in the rate-limit branch and after it)
ShouldEscalate_always(retry) == TRUE
ShouldEscalate_never(retry) == FALSE
ShouldEscalate(retry) == ~retry

\* the sleeps of the rate-limit branch: time.sleep(wait_time), and
\* time.sleep(10) when the frame is already the retry
RateLimitSleeps_short(retry, wait_time) == <<SleepEvent(retry, wait_time)>>
RateLimitSleeps(retry, wait_time) ==
    IF retry
    THEN <<SleepEvent(retry, wait_time), SleepEvent(retry, ExtraSleep)>>
    ELSE <<SleepEvent(retry, wait_time)>>

(***************************************************************************)
(* generate_scope returns what _run_raw returns and lets it raise;         *)
(* generate_framework turns a None and every exception into the minimal    *)
(* framework.                                                              *)
(***************************************************************************)
generate_scope_result(r) == r

generate_framework_result_reraise(r) == r
generate_framework_result(r) ==
    IF r.kind = "raise" \/ (r.kind = "return" /\ r.type = "None")
    THEN Return("ContentFramework", MinimalFramework)
    ELSE r

Deliver(c, r) ==
    IF c = "generate_framework" THEN generate_framework_result(r)
    ELSE generate_scope_result(r)

\* guard against unbounded recursion of the model
MaxCalls == 3

(***************************************************************************)
(* Actions of the cascade.                                                 *)
(***************************************************************************)
StartRequest(c, prov) ==
    /\ pc = "idle"
    /\ pc' = "attempt"
    /\ caller' = c
    /\ provider' = prov
    /\ is_retry' = FALSE
    /\ use_fallback' = FALSE
    /\ depth' = 1
    /\ UNCHANGED <<trace, repair_calls, content, raw, result>>

\* generate_scope: _run_raw(prompt, inputs, self.scope_parser)
GenerateScope ==
    /\ \E prov \in Providers : StartRequest("generate_scope", prov)
    /\ UNCHANGED <<storeVars, queryVars, mergeVars>>

\* generate_framework: _run_raw(prompt, inputs, self.framework_parser) in a try
GenerateFramework ==
    /\ \E prov \in Providers : StartRequest("generate_framework", prov)
    /\ UNCHANGED <<storeVars, queryVars, mergeVars>>

\* the outermost frame ends with outcome r
Finish(r) ==
    /\ pc' = "done"
    /\ raw' = r
    /\ result' = Deliver(caller, r)
    /\ UNCHANGED <<caller, provider, is_retry, use_fallback, depth, repair_calls>>

\* return self._run_raw(prompt_template, inputs, parser, is_retry=True, use_fallback=True)
Recurse ==
    /\ pc' = "attempt"
    /\ is_retry' = TRUE
    /\ use_fallback' = TRUE
    /\ depth' = depth + 1
    /\ UNCHANGED <<caller, provider, repair_calls, content, raw, result>>

\* prompt_template.format(**inputs) is outside the try.  The template of
\* generate_framework holds the unescaped braces of "START WITH { AND END WITH }",
\* a replacement field no input names: format may raise KeyError there.
RunRawFormatError ==
    /\ pc = "attempt"
    /\ caller = "generate_framework"
    /\ depth = 1
    /\ Finish(Raise("KeyError", " AND END WITH "))
    /\ UNCHANGED <<trace, content>>
    /\ UNCHANGED <<storeVars, queryVars, mergeVars>>

\* invoke returns text: strategies 0-2 clean it, then the hardcoded framework
\* is returned whatever the text is
RunRawReturns ==
    /\ pc = "attempt"
    /\ Len(Calls) < MaxCalls
    /\ \E text \in GatewayTexts :
         /\ trace' = Append(trace, InvokeEvent(ActiveLlm(provider, use_fallback),
                                               is_retry, "text", text, <<>>))
         /\ content' = CleanContent(text)
    /\ Finish(Return("ContentFramework", HardcodedFramework))
    /\ UNCHANGED <<storeVars, queryVars, mergeVars>>

\* after the handler's sleeps (if any): retry on the fallback model, or give up
EscalateOrFail ==
    IF ShouldEscalate(is_retry)
    THEN Recurse
    ELSE Finish(Raise("RuntimeError", "ALL ATTEMPTS FAILED")) /\ UNCHANGED content

\* invoke raises and the message names a rate limit
RunRawRateLimited ==
    /\ pc = "attempt"
    /\ Len(Calls) < MaxCalls
    /\ \E error \in GatewayErrors, wait_time \in BackoffMin..BackoffMax :
         /\ IsRateLimit(error)
         /\ trace' = Append(trace, InvokeEvent(ActiveLlm(provider, use_fallback),
                                               is_retry, "error", <<>>, error))
                     \o RateLimitSleeps(is_retry, wait_time)
    /\ EscalateOrFail
    /\ UNCHANGED <<storeVars, queryVars, mergeVars>>

\* invoke raises anything else
RunRawFails ==
    /\ pc = "attempt"
    /\ Len(Calls) < MaxCalls
    /\ \E error \in GatewayErrors :
         /\ ~IsRateLimit(error)
         /\ trace' = Append(trace, InvokeEvent(ActiveLlm(provider, use_fallback),
                                               is_retry, "error", <<>>, error))
    /\ EscalateOrFail
    /\ UNCHANGED <<storeVars, queryVars, mergeVars>>

(***************************************************************************)
(* repair_json, called as a method of its own with the parser of a schema. *)
(***************************************************************************)
\* content[json_start:json_end+1] when both braces are found, whichever comes
\* first: nothing is left when the last "}" is before the first "{"
RepairBraceBound(text) ==
    LET json_start == Find(text, "LB")
        json_end   == RFind(text, "RB")
    IN  IF json_start # 0 /\ json_end # 0
        THEN Slice(text, json_start, json_end)
        ELSE text

\* "Clean again": the fence is unwrapped as in strategy 1, then the braces
RepairClean(text) == RepairBraceBound(UnwrapFence(text))

\* every exception of the body is turned into ValueError
RepairResult(text, schema) ==
    IF Parse(RepairClean(text), schema) = ParseError
    THEN Raise("ValueError", "Repair validation failed")
    ELSE Return(schema, Parse(RepairClean(text), schema))

\* repair_json(broken_text, parser): one call of the fallback model, whose
\* answer is cleaned and parsed
RepairJson ==
    /\ pc = "idle"
    /\ pc' = "done"
    /\ caller' = "repair_json"
    /\ repair_calls' = repair_calls + 1
    /\ \E schema \in {"ScopeDocument", "ContentFramework"} :
         \/ \E text \in GatewayTexts :
              /\ trace' = Append(trace, InvokeEvent("fallback_llm", is_retry,
                                                    "text", text, <<>>))
              /\ content' = RepairClean(text)
              /\ raw' = RepairResult(text, schema)
              /\ result' = RepairResult(text, schema)
         \/ \E error \in GatewayErrors :
              /\ trace' = Append(trace, InvokeEvent("fallback_llm", is_retry,
                                                    "error", <<>>, error))
              /\ raw' = Raise("ValueError", "Repair validation failed")
              /\ result' = Raise("ValueError", "Repair validation failed")
              /\ UNCHANGED content
    /\ UNCHANGED <<provider, is_retry, use_fallback, depth>>
    /\ UNCHANGED <<storeVars, queryVars, mergeVars>>

(***************************************************************************)
(* ValidationEngine.  Every request builds its own instance over the same  *)
(* persist_directory (main.py), so the two files are shared and each file  *)
(* access is a step of its own.                                            *)
(***************************************************************************)
Engines == {"e1", "e2"}

\* bounds of the store model
MaxAdds  == 2
MaxClock == 1

\* a document's content is a sequence of words
Count(s, w) == Cardinality({i \in 1..Len(s) : s[i] = w})

\* get_embedding: the same text always gives the same vector; here the
\* vector counts two words of the content
Embed(text) == <<Count(text, "login"), Count(text, "cart")>>

\* the curated examples add_reference_doc is called with
RefDocs == { [id |-> "ex-1", content |-> <<"login">>],
             [id |-> "ex-2", content |-> <<"cart", "EXPECTED_OUTPUT:", "NL", "checkout">>],
             [id |-> "ex-3", content |-> <<"login">>] }

\* add_feedback: "SCOPE\n" + scope_json + "\n\nFRAMEWORK\n" + framework_json
\*               + "\n\nFEEDBACK\n" + feedback_text
FeedbackContent(scope_json, framework_json, feedback_text) ==
    <<"SCOPE", "NL">> \o scope_json \o <<"NL", "NL", "FRAMEWORK", "NL">>
      \o framework_json \o <<"NL", "NL", "FEEDBACK", "NL">> \o feedback_text

\* f"feedback-{int(time.time())}"
FeedbackId(now) == "feedback-" \o ToString(now)

FeedbackTexts == { <<"login", "cart">>, <<"cart", "cart">> }

Doc(doc_id, text, meta) == [id |-> doc_id, content |-> text, metadata |-> meta]

File(state, data) == [state |-> state, data |-> data]
NoFile == File("absent", <<>>)

\* what a failing write leaves behind: the file as it was (the error came
\* before the first byte) or a truncated file
AfterFailedWrite(old) == {old, File("corrupt", <<>>)}

\* no retrieval call has returned since the instance's last add
NoQuery == [op |-> "none", engine |-> "", text |-> <<>>, k |-> 0,
            returned |-> [kind |-> "none"]]

\* __init__ ... load_index, first half: faiss.read_index when index.faiss exists
Construct(e) ==
    /\ epc[e] = "unborn"
    /\ IF disk_index.state = "absent"
       THEN /\ index' = [index EXCEPT ![e] = <<>>]
            /\ metadata' = [metadata EXCEPT ![e] = <<>>]
            /\ epc' = [epc EXCEPT ![e] = "idle"]
            /\ status' = [status EXCEPT ![e] = "loaded"]
       ELSE IF disk_index.state = "corrupt"
       THEN /\ status' = [status EXCEPT ![e] = "load_failed"]
            /\ UNCHANGED <<index, metadata, epc>>
       ELSE /\ index' = [index EXCEPT ![e] = disk_index.data]
            /\ epc' = [epc EXCEPT ![e] = "load_meta"]
            /\ UNCHANGED <<metadata, status>>
    /\ UNCHANGED <<disk_index, disk_meta, pre_index, pre_meta, clock, adds>>
    /\ query' = NoQuery
    /\ UNCHANGED <<cascadeVars, mergeVars>>

\* load_index, second half: pickle.load(open(meta_path, 'rb'))
LoadMeta(e) ==
    /\ epc[e] = "load_meta"
    /\ IF disk_meta.state = "ok"
       THEN /\ metadata' = [metadata EXCEPT ![e] = disk_meta.data]
            /\ epc' = [epc EXCEPT ![e] = "idle"]
            /\ status' = [status EXCEPT ![e] = "loaded"]
            /\ UNCHANGED index
       ELSE /\ index' = [index EXCEPT ![e] = <<>>]
            /\ metadata' = [metadata EXCEPT ![e] = <<>>]
            /\ epc' = [epc EXCEPT ![e] = "unborn"]
            /\ status' = [status EXCEPT ![e] = "load_failed"]
    /\ UNCHANGED <<disk_index, disk_meta, pre_index, pre_meta, clock, adds>>
    /\ query' = NoQuery
    /\ UNCHANGED <<cascadeVars, mergeVars>>

\* an add that puts the new entry first
AddInMemory_prepend(e, doc_id, text, meta) ==
    /\ epc[e] = "idle"
    /\ adds < MaxAdds
    /\ adds' = adds + 1
    /\ pre_index' = [pre_index EXCEPT ![e] = index[e]]
    /\ pre_meta' = [pre_meta EXCEPT ![e] = metadata[e]]
    /\ \/ /\ index' = [index EXCEPT ![e] = <<Embed(text)>> \o @]
          /\ metadata' = [metadata EXCEPT ![e] = <<Doc(doc_id, text, meta)>> \o @]
          /\ epc' = [epc EXCEPT ![e] = "save_index"]
          /\ status' = [status EXCEPT ![e] = "adding"]
       \/ /\ status' = [status EXCEPT ![e] = "add_failed"]
          /\ UNCHANGED <<index, metadata, epc>>
    /\ query' = NoQuery
    /\ UNCHANGED <<disk_index, disk_meta, clock>>

\* add_reference_doc up to the call of save_index: get_embedding (which may
\* raise), self.index.add, self.metadata.append
AddInMemory(e, doc_id, text, meta) ==
    /\ epc[e] = "idle"
    /\ adds < MaxAdds
    /\ adds' = adds + 1
    /\ pre_index' = [pre_index EXCEPT ![e] = index[e]]
    /\ pre_meta' = [pre_meta EXCEPT ![e] = metadata[e]]
    /\ \/ /\ index' = [index EXCEPT ![e] = Append(@, Embed(text))]
          /\ metadata' = [metadata EXCEPT ![e] = Append(@, Doc(doc_id, text, meta))]
          /\ epc' = [epc EXCEPT ![e] = "save_index"]
          /\ status' = [status EXCEPT ![e] = "adding"]
       \/ /\ status' = [status EXCEPT ![e] = "add_failed"]
          /\ UNCHANGED <<index, metadata, epc>>
    /\ query' = NoQuery
    /\ UNCHANGED <<disk_index, disk_meta, clock>>

AddReferenceDoc(e) ==
    /\ \E doc \in RefDocs :
         AddInMemory(e, doc.id, doc.content, [type |-> "example"])
    /\ UNCHANGED <<cascadeVars, mergeVars>>

AddFeedback(e) ==
    /\ \E feedback_text \in FeedbackTexts :
         AddInMemory(e, FeedbackId(clock),
                     FeedbackContent(<<"scope">>, <<"framework">>, feedback_text),
                     [type |-> "feedback"])
    /\ UNCHANGED <<cascadeVars, mergeVars>>

\* save_index, first half: faiss.write_index(self.index, self.index_path)
WriteIndex(e) ==
    /\ epc[e] = "save_index"
    /\ \/ /\ disk_index' = File("ok", index[e])
          /\ epc' = [epc EXCEPT ![e] = "save_meta"]
          /\ UNCHANGED status
       \/ /\ disk_index' \in AfterFailedWrite(disk_index)
          /\ epc' = [epc EXCEPT ![e] = "idle"]
          /\ status' = [status EXCEPT ![e] = "add_failed"]
    /\ UNCHANGED <<disk_meta, index, metadata, pre_index, pre_meta, clock, adds>>
    /\ query' = NoQuery
    /\ UNCHANGED <<cascadeVars, mergeVars>>

\* save_index, second half: pickle.dump(self.metadata, open(meta_path, 'wb'))
WriteMeta(e) ==
    /\ epc[e] = "save_meta"
    /\ epc' = [epc EXCEPT ![e] = "idle"]
    /\ \/ /\ disk_meta' = File("ok", metadata[e])
          /\ status' = [status EXCEPT ![e] = "add_ok"]
       \/ /\ disk_meta' \in AfterFailedWrite(disk_meta)
          /\ status' = [status EXCEPT ![e] = "add_failed"]
    /\ UNCHANGED <<disk_index, index, metadata, pre_index, pre_meta, clock, adds>>
    /\ query' = NoQuery
    /\ UNCHANGED <<cascadeVars, mergeVars>>

\* the request that built the instance ends; the instance is dropped
DropEngine(e) ==
    /\ epc[e] = "idle"
    /\ epc' = [epc EXCEPT ![e] = "unborn"]
    /\ index' = [index EXCEPT ![e] = <<>>]
    /\ metadata' = [metadata EXCEPT ![e] = <<>>]
    /\ status' = [status EXCEPT ![e] = "none"]
    /\ pre_index' = [pre_index EXCEPT ![e] = <<>>]
    /\ pre_meta' = [pre_meta EXCEPT ![e] = <<>>]
    /\ query' = NoQuery
    /\ UNCHANGED <<disk_index, disk_meta, clock, adds>>
    /\ UNCHANGED <<cascadeVars, mergeVars>>

\* a second passes
Tick ==
    /\ clock < MaxClock
    /\ clock' = clock + 1
    /\ UNCHANGED <<disk_index, disk_meta, index, metadata, epc, status,
                   pre_index, pre_meta, adds>>
    /\ query' = NoQuery
    /\ UNCHANGED <<cascadeVars, mergeVars>>

(***************************************************************************)
(* Retrieval: self.index.search and the three methods built on it.         *)
(***************************************************************************)
\* bound on n_results
MaxK == 2

\* IndexFlatL2 reports squared Euclidean distances
L2(u, v) == (u[1] - v[1]) * (u[1] - v[1]) + (u[2] - v[2]) * (u[2] - v[2])

\* the label search pads its answer with when the index holds fewer than k
\* vectors.  Labels count from 1 here (from 0 in faiss).
NoLabel == -1

\* the nearest vector among those not taken yet: smaller distance first,
\* smaller label first among equal distances
NearestLabel(vecs, q, taken) ==
    CHOOSE i \in (1..Len(vecs)) \ taken :
      \A j \in (1..Len(vecs)) \ taken :
        \/ L2(vecs[i], q) < L2(vecs[j], q)
        \/ (L2(vecs[i], q) = L2(vecs[j], q) /\ i <= j)

RECURSIVE SearchFrom(_, _, _, _)
SearchFrom(vecs, q, k, taken) ==
    IF k = 0 THEN <<>>
    ELSE IF taken = 1..Len(vecs)
    THEN <<NoLabel>> \o SearchFrom(vecs, q, k - 1, taken)
    ELSE LET i == NearestLabel(vecs, q, taken)
         IN  <<i>> \o SearchFrom(vecs, q, k - 1, taken \cup {i})

\* distances, indices = self.index.search(embedding, k): the labels
Search(vecs, q, k) == SearchFrom(vecs, q, k, {})

ListResult(value) == [kind |-> "list", value |-> value]
NoneResult == [kind |-> "None"]
MatchResult(distance, text, doc_id) ==
    [kind |-> "match", distance |-> distance, content |-> text, id |-> doc_id]
TextResult(value) == [kind |-> "str", value |-> value]
RaisedResult == [kind |-> "raise"]

\* validate_content: `idx != -1 and idx < len(self.metadata)` keeps a label
validate_content_unfiltered(vecs, meta, text, k) ==
    ListResult(Search(vecs, Embed(text), k))
validate_content(vecs, meta, text, k) ==
    IF Len(vecs) = 0 THEN ListResult(<<>>)
    ELSE LET labels == Search(vecs, Embed(text), k)
             Keep(idx) == idx # NoLabel /\ idx <= Len(meta)
             kept == SelectSeq(labels, Keep)
         IN  ListResult([i \in 1..Len(kept) |-> meta[kept[i]].content])

\* find_best_match
find_best_match(vecs, meta, text) ==
    IF Len(vecs) = 0 THEN NoneResult
    ELSE LET idx == Search(vecs, Embed(text), 1)[1]
         IN  IF idx = NoLabel \/ idx > Len(meta) THEN NoneResult
             ELSE MatchResult(L2(vecs[idx], Embed(text)),
                              meta[idx].content, meta[idx].id)

\* parse_expected_output: kb_content.split("EXPECTED_OUTPUT:\n", 1)
parse_expected_output(kb_content) ==
    LET marks == {i \in 1..(Len(kb_content) - 1) :
                    kb_content[i] = "EXPECTED_OUTPUT:" /\ kb_content[i+1] = "NL"}
    IN  IF marks = {} THEN kb_content
        ELSE LET i == CHOOSE m \in marks : \A n \in marks : m <= n
             IN  Slice(kb_content, i + 2, Len(kb_content))

\* find_best_expected_output
find_best_expected_output(vecs, meta, text) ==
    LET best == find_best_match(vecs, meta, text)
    IN  IF best.kind = "None" THEN NoneResult
        ELSE TextResult(parse_expected_output(best.content))

\* texts the retrieval methods are called with: two fixed ones and the
\* contents the instance holds
QueryTexts(e) ==
    { <<"login">>, <<"cart", "cart">> }
      \cup {metadata[e][i].content : i \in 1..Len(metadata[e])}

\* a retrieval method of instance e returns (or raises from get_embedding,
\* which is only called when the index is not empty).  The methods change
\* nothing, so one answer is recorded between two steps of the store.
Answer(e, op, text, k, returned) ==
    /\ epc[e] = "idle"
    /\ query = NoQuery
    /\ \/ query' = [op |-> op, engine |-> e, text |-> text, k |-> k,
                    returned |-> returned]
       \/ /\ Len(index[e]) # 0
          /\ query' = [op |-> op, engine |-> e, text |-> text, k |-> k,
                       returned |-> RaisedResult]
    /\ UNCHANGED <<storeVars, cascadeVars, mergeVars>>

ValidateContent(e) ==
    \E text \in QueryTexts(e), k \in 1..MaxK :
      Answer(e, "validate_content", text, k,
             validate_content(index[e], metadata[e], text, k))

FindBestMatch(e) ==
    \E text \in QueryTexts(e) :
      Answer(e, "find_best_match", text, 1,
             find_best_match(index[e], metadata[e], text))

FindBestExpectedOutput(e) ==
    \E text \in QueryTexts(e) :
      Answer(e, "find_best_expected_output", text, 1,
             find_best_expected_output(index[e], metadata[e], text))

(***************************************************************************)
(* Consensus merge: merge_scopes and merge_frameworks.                     *)
(***************************************************************************)
\* no merge has been asked for
NoMerge == [kind |-> "none"]

\* bound on the length of the generated lists
MaxItems == 2

SeqsUpTo(S, n) == UNION {[1..m -> S] : m \in 0..n}

\* merge_scopes.dedupe: the first occurrence of every value, in order
RECURSIVE dedupe(_)
dedupe(x) ==
    IF x = <<>> THEN <<>>
    ELSE LET out == dedupe(SubSeq(x, 1, Len(x) - 1))
             i == x[Len(x)]
         IN  IF \E n \in 1..Len(out) : out[n] = i THEN out ELSE Append(out, i)

\* a merge that takes the title of b
merge_scopes_title_b(a, b) ==
    [project_title |-> b.project_title,
     objectives |-> dedupe(a.objectives \o b.objectives),
     scope_in |-> dedupe(a.scope_in \o b.scope_in),
     scope_out |-> dedupe(a.scope_out \o b.scope_out),
     navigation |-> dedupe(a.navigation \o b.navigation),
     gap_analysis |-> dedupe(a.gap_analysis \o b.gap_analysis),
     strategic_recommendations |-> <<>>]

\* merge_scopes: strategic_recommendations is not passed to ScopeDocument(...)
\* and takes its default, the empty list
merge_scopes(a, b) ==
    [project_title |-> a.project_title,
     objectives |-> dedupe(a.objectives \o b.objectives),
     scope_in |-> dedupe(a.scope_in \o b.scope_in),
     scope_out |-> dedupe(a.scope_out \o b.scope_out),
     navigation |-> dedupe(a.navigation \o b.navigation),
     gap_analysis |-> dedupe(a.gap_analysis \o b.gap_analysis),
     strategic_recommendations |-> <<>>]

\* the two kinds of value a field declared Union[str, List[str]] holds
PyText(text) == [type |-> "str", text |-> text]
PyList(items) == [type |-> "list", items |-> items]

\* the fields dedupe_list is keyed on that are declared Union[str, List[str]];
\* the other keyed fields are declared Optional[str] and are plain strings
UnionFields == {"nested_items"}

\* str(v) of a list of strings: ['a', 'b']
RECURSIVE ReprItems(_)
ReprItems(l) ==
    IF l = <<>> THEN ""
    ELSE IF Len(l) = 1 THEN "'" \o l[1] \o "'"
    ELSE "'" \o l[1] \o "', " \o ReprItems(Tail(l))

PyStr(l) == "[" \o ReprItems(l) \o "]"

\* dedupe_list: v = get_v(item, key); if isinstance(v, (list, dict)): v = str(v)
KeyValue(item, key) ==
    IF key \in UnionFields
    THEN IF item[key].type = "list" THEN PyStr(item[key].items)
         ELSE item[key].text
    ELSE item[key]

\* merge_frameworks.dedupe_list: the first item of every tuple of key values
RECURSIVE dedupe_list(_, _)
dedupe_list(items, keys) ==
    IF items = <<>> THEN <<>>
    ELSE LET out == dedupe_list(SubSeq(items, 1, Len(items) - 1), keys)
             item == items[Len(items)]
             k(it) == [n \in 1..Len(keys) |-> KeyValue(it, keys[n])]
         IN  IF \E n \in 1..Len(out) : k(out[n]) = k(item)
             THEN out ELSE Append(out, item)

\* merge_frameworks: the scope fields passed to ContentFramework(...) are not
\* fields of the model and are ignored
merge_frameworks(a, b) ==
    [header_nav |-> dedupe_list(a.header_nav \o b.header_nav,
                                <<"main_nav", "dropdown", "final_destination">>),
     footer_nav |-> dedupe_list(a.footer_nav \o b.footer_nav,
                                <<"menu_title", "nested_items">>),
     website_assets |-> dedupe_list(a.website_assets \o b.website_assets,
                                    <<"asset_required">>),
     cta_strategy |-> a.cta_strategy]

\* the scope records the merge is given
ScopeInputs ==
    { ScopeDocument(title, objectives, scope_in, <<"legacy">>, objectives,
                    scope_in, recs) :
        title \in {"", "X", "Y"},
        objectives \in SeqsUpTo({"o1", "o2"}, MaxItems),
        scope_in \in {<<>>, <<"s1">>},
        recs \in {<<>>, <<"r1">>} }

\* the framework records the merge is given: Home and HomeAlt agree on the
\* three keyed fields, Logo and LogoAlt on asset_required; the nested_items
\* of Policy is a string, that of PolicyList a list
HomeItem == HeaderNavItem("Home", "", "Homepage", "Main Page", "landing", "Hero")
HomeAltItem == HeaderNavItem("Home", "", "Homepage", "Main Page", "welcome", "Hero")
ShopItem == HeaderNavItem("Shop", "Sale", "Shop Page", "Menu", "shop", "Grid")
PolicyItem == FooterNavItem("Policies", PyText("['Privacy']"), "policies", "Links")
PolicyListItem == FooterNavItem("Policies", PyList(<<"Privacy">>), "policies", "Links")
LogoAsset == WebsiteAsset("Logo", "vector logo", "Branding")
LogoAltAsset == WebsiteAsset("Logo", "monochrome logo", "Branding")

FrameworkInputs ==
    { ContentFramework(header_nav, footer_nav, website_assets, cta_strategy) :
        header_nav \in {<<>>, <<HomeItem>>, <<HomeAltItem>>,
                        <<HomeItem, ShopItem>>, <<HomeItem, HomeAltItem>>},
        footer_nav \in {<<>>, <<PolicyItem>>, <<PolicyListItem>>},
        website_assets \in {<<>>, <<LogoAsset>>, <<LogoAsset, LogoAltAsset>>},
        cta_strategy \in {"", "Book a call", "Buy now"} }

\* processor.merge_scopes(a, b) is called and returns
MergeScopes ==
    /\ merge_in.kind = "scope"
    /\ merged = NoMerge
    /\ merged' = [kind |-> "scope", value |-> merge_scopes(merge_in.a, merge_in.b)]
    /\ UNCHANGED <<merge_in, cascadeVars, storeVars, queryVars>>

\* processor.merge_frameworks(a, b) is called and returns
MergeFrameworks ==
    /\ merge_in.kind = "framework"
    /\ merged = NoMerge
    /\ merged' = [kind |-> "framework",
                  value |-> merge_frameworks(merge_in.a, merge_in.b)]
    /\ UNCHANGED <<merge_in, cascadeVars, storeVars, queryVars>>

(***************************************************************************)
(* Specifications.                                                         *)
(***************************************************************************)
Init ==
    /\ pc = "idle"
    /\ caller = "none"
    /\ provider = "groq"
    /\ is_retry = FALSE
    /\ use_fallback = FALSE
    /\ depth = 0
    /\ trace = <<>>
    /\ repair_calls = 0
    /\ content = <<>>
    /\ raw = NoOutcome
    /\ result = NoOutcome
    /\ disk_index = NoFile
    /\ disk_meta = NoFile
    /\ index = [e \in Engines |-> <<>>]
    /\ metadata = [e \in Engines |-> <<>>]
    /\ epc = [e \in Engines |-> "unborn"]
    /\ status = [e \in Engines |-> "none"]
    /\ pre_index = [e \in Engines |-> <<>>]
    /\ pre_meta = [e \in Engines |-> <<>>]
    /\ clock = 0
    /\ adds = 0
    /\ query = NoQuery
    /\ merge_in = NoMerge
    /\ merged = NoMerge

\* one request through the cascade
Next ==
    \/ GenerateScope
    \/ GenerateFramework
    \/ RunRawReturns
    \/ RunRawRateLimited
    \/ RunRawFails
    \/ RunRawFormatError

Spec == Init /\ [][Next]_vars

\* the methods of AIProcessor that call the gateway, repair_json included
NextRepair == Next \/ RepairJson

SpecRepair == Init /\ [][NextRepair]_vars

\* the request is one sequential call: it keeps running until it ends
LiveSpec == Init /\ [][Next]_vars /\ WF_vars(Next)

\* the engines over one directory
NextStore ==
    \/ \E e \in Engines : Construct(e)
    \/ \E e \in Engines : LoadMeta(e)
    \/ \E e \in Engines : AddReferenceDoc(e)
    \/ \E e \in Engines : AddFeedback(e)
    \/ \E e \in Engines : WriteIndex(e)
    \/ \E e \in Engines : WriteMeta(e)
    \/ \E e \in Engines : DropEngine(e)
    \/ Tick

SpecStore == Init /\ [][NextStore]_vars

\* the same engines when the requests do not overlap: a method of one
\* instance runs from its first file access to its last before another
\* instance takes a step
Quiet(e) == \A o \in Engines \ {e} : epc[o] \in {"unborn", "idle"}

NextStoreSeq ==
    \/ \E e \in Engines : Quiet(e) /\ Construct(e)
    \/ \E e \in Engines : Quiet(e) /\ LoadMeta(e)
    \/ \E e \in Engines : Quiet(e) /\ AddReferenceDoc(e)
    \/ \E e \in Engines : Quiet(e) /\ AddFeedback(e)
    \/ \E e \in Engines : Quiet(e) /\ WriteIndex(e)
    \/ \E e \in Engines : Quiet(e) /\ WriteMeta(e)
    \/ \E e \in Engines : Quiet(e) /\ DropEngine(e)
    \/ Tick

SpecStoreSeq == Init /\ [][NextStoreSeq]_vars

\* one request at a time, each served by an instance of its own that is gone
\* before the next request starts; the retrieval methods included
Alone(e) == \A o \in Engines \ {e} : epc[o] = "unborn"

NextEngine ==
    \/ \E e \in Engines : Alone(e) /\ Construct(e)
    \/ \E e \in Engines : Alone(e) /\ LoadMeta(e)
    \/ \E e \in Engines : Alone(e) /\ AddReferenceDoc(e)
    \/ \E e \in Engines : Alone(e) /\ AddFeedback(e)
    \/ \E e \in Engines : Alone(e) /\ WriteIndex(e)
    \/ \E e \in Engines : Alone(e) /\ WriteMeta(e)
    \/ \E e \in Engines : Alone(e) /\ DropEngine(e)
    \/ \E e \in Engines : Alone(e) /\ ValidateContent(e)
    \/ \E e \in Engines : Alone(e) /\ FindBestMatch(e)
    \/ \E e \in Engines : Alone(e) /\ FindBestExpectedOutput(e)
    \/ Tick

SpecEngine == Init /\ [][NextEngine]_vars

\* the merges alone, on every pair of the given records
InitMerge ==
    /\ pc = "idle" /\ caller = "none" /\ provider = "groq"
    /\ is_retry = FALSE /\ use_fallback = FALSE /\ depth = 0
    /\ trace = <<>> /\ repair_calls = 0 /\ content = <<>>
    /\ raw = NoOutcome /\ result = NoOutcome
    /\ disk_index = NoFile /\ disk_meta = NoFile
    /\ index = [e \in Engines |-> <<>>]
    /\ metadata = [e \in Engines |-> <<>>]
    /\ epc = [e \in Engines |-> "unborn"]
    /\ status = [e \in Engines |-> "none"]
    /\ pre_index = [e \in Engines |-> <<>>]
    /\ pre_meta = [e \in Engines |-> <<>>]
    /\ clock = 0 /\ adds = 0
    /\ query = NoQuery
    /\ merged = NoMerge
    /\ \/ \E a \in ScopeInputs, b \in ScopeInputs :
            merge_in = [kind |-> "scope", a |-> a, b |-> b]
       \/ \E a \in FrameworkInputs, b \in FrameworkInputs :
            merge_in = [kind |-> "framework", a |-> a, b |-> b]

NextMerge == MergeScopes \/ MergeFrameworks

SpecMerge == InitMerge /\ [][NextMerge]_vars

(***************************************************************************)
(* Properties of the cascade.                                              *)
(***************************************************************************)
Done == pc = "done"
LastCall == Calls[Len(Calls)]
IsFatal(r) == r.kind = "raise" /\ r.type = "RuntimeError"

\* C1: a finished call of generate_scope / generate_framework either returned
\* a record of the schema of its parser or raised the fatal error; it never
\* returned a value of another type.
C1_RecordOrFatal ==
    Done => \/ (result.kind = "return" /\ result.type = TargetSchema(caller))
            \/ IsFatal(result)

\* C2: when the gateway call succeeded and the cleaned text parses as a record
\* of the target schema, _run_raw returns exactly the record parsed from it.
C2_ParsedRecordReturned ==
    ( /\ Done
      /\ Calls # <<>>
      /\ LastCall.outcome = "text"
      /\ Parse(content, TargetSchema(caller)) # ParseError )
    => raw = Return(TargetSchema(caller), Parse(content, TargetSchema(caller)))

\* C3: a first-attempt answer that contains "properties": is followed by
\* exactly one more attempt, on the fallback model, flagged as the retry.
C3_SchemaEscalatesOnce ==
    ( /\ Done
      /\ Calls # <<>>
      /\ Calls[1].outcome = "text"
      /\ ~Calls[1].is_retry
      /\ Contains(Calls[1].text, "PROPS") )
    => ( /\ Len(Calls) = 2
         /\ Calls[2].llm = "fallback_llm"
         /\ Calls[2].is_retry )

\* C4: a request never enters more than two _run_raw frames (the first with
\* is_retry false, the second with is_retry true), never makes more than two
\* main gateway invocations nor more than one repair call per attempt, and
\* every started request ends.
C4_Bound ==
    /\ depth <= 2
    /\ Len(Calls) <= 2
    /\ repair_calls <= Len(Calls)
    /\ \A i \in 1..Len(Calls) : Calls[i].is_retry = (i = 2)
C4_Terminates == []C4_Bound /\ ((pc = "attempt") ~> Done)
C4_Witness == Done /\ depth = 2 /\ Len(Calls) = 2

\* C5: the fatal "ALL ATTEMPTS FAILED" error comes only from the frame with
\* is_retry true, after the configured model and then the fallback model were
\* both invoked and both failed; a failed first attempt leaves the request
\* running, with nothing surfaced.
C5_FatalOnlyAfterBothTiers ==
    /\ IsFatal(raw) =>
         /\ is_retry
         /\ depth = 2
         /\ Len(Calls) = 2
         /\ Calls[1].llm = Llm(provider) /\ ~Calls[1].is_retry
         /\ Calls[1].outcome = "error"
         /\ Calls[2].llm = "fallback_llm" /\ Calls[2].is_retry
         /\ Calls[2].outcome = "error"
    /\ (Len(Calls) = 1 /\ Calls[1].outcome = "error") =>
         (pc = "attempt" /\ raw = NoOutcome /\ result = NoOutcome)
C5_Witness == Done /\ IsFatal(raw)

\* C6: a rate-limit error of the gateway is followed at once by one sleep of
\* 20 to 40 s; on the first attempt the next step is the retry on the fallback
\* model, on the retry it is a sleep of 10 s and then the fatal error, with no
\* further gateway call.
C6_RateLimitBackoff ==
    \A i \in 1..Len(trace) :
      (IsInvoke(trace[i]) /\ trace[i].outcome = "error" /\ IsRateLimit(trace[i].error))
      => /\ i < Len(trace)
         /\ IsSleep(trace[i+1])
         /\ trace[i+1].secs \in BackoffMin..BackoffMax
         /\ IF ~trace[i].is_retry
            THEN IF Len(trace) = i + 1
                 THEN pc = "attempt" /\ is_retry /\ use_fallback
                 ELSE /\ IsInvoke(trace[i+2])
                      /\ trace[i+2].llm = "fallback_llm"
                      /\ trace[i+2].is_retry
            ELSE /\ Len(trace) = i + 2
                 /\ IsSleep(trace[i+2])
                 /\ trace[i+2].secs = ExtraSleep
                 /\ Done
                 /\ IsFatal(raw)
C6_Witness == Done /\ Len(Sleeps) = 3 /\ IsFatal(raw)

C8_DegradedRecordEmpty ==
    ( /\ Done
      /\ caller = "generate_framework"
      /\ result.kind = "return"
      /\ (raw.kind = "raise" \/ Parse(content, "ContentFramework") = ParseError) )
    => /\ result.value.header_nav = <<>>
       /\ result.value.footer_nav = <<>>
       /\ result.value.website_assets = <<>>
       /\ result.value.cta_strategy = ""

(***************************************************************************)
(* Properties of the store.                                                *)
(***************************************************************************)
\* C9: in every instance that is between two methods, the index holds as many
\* vectors as metadata holds documents, and vector i is the embedding of the
\* content of document i (checked with requests that do not overlap, so
\* that only failed steps and reloads are in play).
C9_IndexMatchesMetadata ==
    \A e \in Engines :
      epc[e] = "idle" =>
        /\ Len(index[e]) = Len(metadata[e])
        /\ \A i \in 1..Len(index[e]) : index[e][i] = Embed(metadata[e][i].content)

\* C10: after an add_reference_doc that failed, the instance's index and
\* metadata are what they were when the call was entered.
C10_FailedAddRolledBack ==
    \A e \in Engines :
      (epc[e] = "idle" /\ status[e] = "add_failed") =>
        (index[e] = pre_index[e] /\ metadata[e] = pre_meta[e])

(***************************************************************************)
(* Properties of the store under concurrent requests.                      *)
(***************************************************************************)
\* the document an instance appended last
LastDoc(e) == metadata[e][Len(metadata[e])]

InFile(doc) == \E i \in 1..Len(disk_meta.data) : disk_meta.data[i] = doc

\* C11: when every instance has just completed an add successfully, the
\* files hold the document of each of them, and index.faiss holds exactly
\* the embeddings of the documents of metadata.pkl, in order.
C11_NoLostUpdate ==
    (\A e \in Engines : epc[e] = "idle" /\ status[e] = "add_ok") =>
      /\ disk_index.state = "ok" /\ disk_meta.state = "ok"
      /\ \A e \in Engines : InFile(LastDoc(e))
      /\ Len(disk_index.data) = Len(disk_meta.data)
      /\ \A i \in 1..Len(disk_meta.data) :
           disk_index.data[i] = Embed(disk_meta.data[i].content)

\* C12: the step that completes an add successfully leaves both files
\* holding exactly what the instance holds in memory.
C12_DurableIsInMemory ==
    [][\A e \in Engines :
         (status'[e] = "add_ok" /\ status[e] # "add_ok") =>
           /\ disk_index' = File("ok", index'[e])
           /\ disk_meta' = File("ok", metadata'[e])]_vars

\* C17: the id add_feedback gives the document it appends is the id of no
\* feedback document the instance holds already (looked at when all the instance
\* holds is what metadata.pkl holds, so that every earlier add succeeded).
C17_FeedbackIdsUnique ==
    [][\A e \in Engines :
         (/\ status'[e] = "adding"
          /\ status[e] # "adding"
          /\ disk_meta = File("ok", metadata[e])
          /\ metadata'[e][Len(metadata'[e])].metadata.type = "feedback")
           => \A i \in 1..Len(metadata[e]) :
                metadata[e][i].metadata.type = "feedback" =>
                  metadata[e][i].id # metadata'[e][Len(metadata'[e])].id]_vars

(***************************************************************************)
(* Properties of the store and of retrieval, one request at a time.        *)
(***************************************************************************)
IsPrefix(s, t) == Len(s) <= Len(t) /\ \A i \in 1..Len(s) : s[i] = t[i]

Min(a, b) == IF a <= b THEN a ELSE b

\* the k documents of meta nearest to text, nearest first, the earlier
\* document first among equally distant ones; all of meta when it holds
\* fewer than k
Nearest(meta, text, k) ==
    LET n == Min(k, Len(meta))
        labels == Search([i \in 1..Len(meta) |-> Embed(meta[i].content)],
                         Embed(text), n)
    IN  [i \in 1..n |-> meta[labels[i]]]

C14_KNearest ==
    (/\ query.op = "validate_content"
     /\ query.returned.kind = "list"
     /\ Len(metadata[query.engine]) > 0) =>
      LET docs == Nearest(metadata[query.engine], query.text, query.k)
      IN  query.returned.value = [i \in 1..Len(docs) |-> docs[i].content]

\* C15: on an empty store validate_content returns the empty list and the
\* other two return None, none of them raising; on a store that holds
\* documents find_best_match returns distance, content and id of the
\* nearest document.
C15_EmptyOrNearest ==
    query.op # "none" =>
      LET meta == metadata[query.engine]
      IN  /\ (Len(meta) = 0 /\ Len(index[query.engine]) = 0) =>
                query.returned = IF query.op = "validate_content"
                                 THEN ListResult(<<>>) ELSE NoneResult
          /\ (/\ query.op = "find_best_match"
              /\ Len(meta) > 0
              /\ query.returned.kind # "raise") =>
                LET doc == Nearest(meta, query.text, 1)[1]
                IN  query.returned =
                      MatchResult(L2(Embed(doc.content), Embed(query.text)),
                                  doc.content, doc.id)

\* C16: after an add that succeeded, find_best_match on the content of the
\* added document returns that document's content and id with distance 0.
C16_RoundTrip ==
    (/\ query.op = "find_best_match"
     /\ query.returned.kind # "raise"
     /\ status[query.engine] = "add_ok"
     /\ query.text = LastDoc(query.engine).content) =>
      query.returned = MatchResult(0, LastDoc(query.engine).content,
                                   LastDoc(query.engine).id)

(***************************************************************************)
(* Properties of the consensus merge.                                      *)
(***************************************************************************)
DuplicateFree(x) == \A i, j \in 1..Len(x) : x[i] = x[j] => i = j

ListsDuplicateFree(r, fields) == \A f \in fields : DuplicateFree(r[f])

ScopeLists == {"objectives", "scope_in", "scope_out", "navigation",
               "gap_analysis", "strategic_recommendations"}
FrameworkLists == {"header_nav", "footer_nav", "website_assets"}

\* C18: merging a record whose lists are duplicate-free with itself gives
\* the record back, field by field, for scopes and for frameworks.
C18_MergeIdempotent ==
    (/\ merged.kind # "none"
     /\ merge_in.a = merge_in.b
     /\ ListsDuplicateFree(merge_in.a, IF merged.kind = "scope"
                                       THEN ScopeLists ELSE FrameworkLists)) =>
      merged.value = merge_in.a

\* C19: the merged scope has A's project_title when that is not empty, and
\* B's when A's is empty.
C19_TitlePrefersNonEmpty ==
    merged.kind = "scope" =>
      merged.value.project_title =
        IF merge_in.a.project_title # "" THEN merge_in.a.project_title
        ELSE merge_in.b.project_title

\* C20: with A titled "X" and B titled "Y", merge_scopes(A, B) is titled "X"
\* and merge_scopes(B, A) is titled "Y".
C20_MergeAsymmetric ==
    (/\ merged.kind = "scope"
     /\ merge_in.a.project_title = "X"
     /\ merge_in.b.project_title = "Y") =>
      /\ merged.value.project_title = "X"
      /\ merge_scopes(merge_in.b, merge_in.a).project_title = "Y"

\* two scopes titled "X" and "Y", with lists of their own, have been merged
C20_Witness ==
    /\ merged.kind = "scope"
    /\ merge_in.a.project_title = "X"
    /\ merge_in.b.project_title = "Y"
    /\ merge_in.a.objectives # merge_in.b.objectives
    /\ merged.value.project_title = "X"

\* the elements of a list
Range(x) == {x[i] : i \in 1..Len(x)}

\* position of the first occurrence of v in x
FirstAt(x, v) == CHOOSE i \in 1..Len(x) : x[i] = v /\ \A j \in 1..(i - 1) : x[j] # v

\* x holds no element twice, holds exactly the elements of both, and holds
\* them in the order in which they first appear in both
IsDedupOf(x, both) ==
    /\ DuplicateFree(x)
    /\ Range(x) = Range(both)
    /\ \A i, j \in 1..Len(x) :
         i < j => FirstAt(both, x[i]) < FirstAt(both, x[j])

\* C21: every list-of-string field of the merged scope, the advisory
\* strategic_recommendations included, is A's list followed by B's with the
\* later duplicates removed.
C21_ListsConcatDedup ==
    merged.kind = "scope" =>
      \A f \in ScopeLists :
        IsDedupOf(merged.value[f], merge_in.a[f] \o merge_in.b[f])

\* the keyed attributes of u and v compare equal
SameProjection(u, v, keys) == \A n \in 1..Len(keys) : u[keys[n]] = v[keys[n]]

\* items without every item that an earlier item has the same projection as
RECURSIVE FirstOccurrences(_, _)
FirstOccurrences(items, keys) ==
    IF items = <<>> THEN <<>>
    ELSE LET front == SubSeq(items, 1, Len(items) - 1)
             item == items[Len(items)]
         IN  IF \E n \in 1..Len(front) : SameProjection(front[n], item, keys)
             THEN FirstOccurrences(front, keys)
             ELSE Append(FirstOccurrences(front, keys), item)

FrameworkKeys ==
    [header_nav |-> <<"main_nav", "dropdown", "final_destination">>,
     footer_nav |-> <<"menu_title", "nested_items">>,
     website_assets |-> <<"asset_required">>]

\* C22: every list of the merged framework is A's items followed by B's,
\* without exactly the items whose keyed attributes all compare equal to
\* those of an earlier item.
C22_StructListsDedup ==
    merged.kind = "framework" =>
      \A f \in FrameworkLists :
        merged.value[f] =
          FirstOccurrences(merge_in.a[f] \o merge_in.b[f], FrameworkKeys[f])

\* C23: the merged cta_strategy is B's text when A's is empty, A's when B's
\* is empty, and more than either text alone (both, with a separator) when
\* neither is empty.
C23_CtaConcatenated ==
    merged.kind = "framework" =>
      LET a == merge_in.a.cta_strategy
          b == merge_in.b.cta_strategy
          cta == merged.value.cta_strategy
      IN  IF a = "" THEN cta = b
          ELSE IF b = "" THEN cta = a
          ELSE cta # a /\ cta # b

\* the merge of the same two records, taken the other way round
Swapped ==
    IF merged.kind = "scope" THEN merge_scopes(merge_in.b, merge_in.a)
    ELSE merge_frameworks(merge_in.b, merge_in.a)

\* the framework lists of r are those of a followed by those of b, less the
\* items whose keyed attributes compare equal to those of an earlier item
DedupedByProjection(r, a, b) ==
    \A f \in FrameworkLists :
      r[f] = FirstOccurrences(a[f] \o b[f], FrameworkKeys[f])

\* C24: every list field of merge(A, B) holds the same elements (whole
\* items, for the framework lists) as that field of merge(B, A) (looked at
\* where both merges removed only items that compare equal on the keyed
\* attributes to an earlier one).
C24_SameElementsEitherWay ==
    (/\ merged.kind # "none"
     /\ merged.kind = "framework" =>
          /\ DedupedByProjection(merged.value, merge_in.a, merge_in.b)
          /\ DedupedByProjection(Swapped, merge_in.b, merge_in.a)) =>
      \A f \in (IF merged.kind = "scope" THEN ScopeLists ELSE FrameworkLists) :
        Range(merged.value[f]) = Range(Swapped[f])

(***************************************************************************)
(* Properties of the cleaning and of the recovery steps.                   *)
(***************************************************************************)
\* the content inside the first fenced block of text: from after the first
\* fence, "```json" or bare, up to the next fence
FirstFencedBlock(text) ==
    LET open == CHOOSE i \in 1..Len(text) :
                  text[i] \in Fences /\ \A j \in 1..(i-1) : text[j] \notin Fences
    IN  Strip(BeforeFence(Slice(text, open + 1, Len(text))))

\* C25: when the pre-cleaned answer holds a fence, the text _run_raw goes on
\* with is what lies inside the first fenced block (then bounded by braces).
C25_FirstFenceUnwrapped ==
    (/\ Done
     /\ raw.kind = "return"
     /\ \E i \in 1..Len(PreClean(LastCall.text)) :
          PreClean(LastCall.text)[i] \in Fences) =>
      content = BraceBound(FirstFencedBlock(PreClean(LastCall.text)))

\* STRATEGY 6, json_pattern: a "{" and the text up to the "}" that closes
\* it, with braces nested no deeper than three
MaxNesting == 3

BraceBalance(text, i, j) ==
    Cardinality({n \in i..j : text[n] = "LB"})
      - Cardinality({n \in i..j : text[n] = "RB"})

\* the position where the match that starts at the "{" at i ends, 0 when the
\* pattern does not match there
MatchEnd(text, i) ==
    LET closes == {j \in (i+1)..Len(text) : BraceBalance(text, i, j) = 0}
    IN  IF text[i] # "LB" \/ closes = {} THEN 0
        ELSE LET j == CHOOSE c \in closes : \A d \in closes : c <= d
             IN  IF \A n \in i..j : BraceBalance(text, i, n) <= MaxNesting
                 THEN j ELSE 0

\* re.findall(json_pattern, content): the matches from left to right, each
\* search starting after the previous match
RECURSIVE FindAll(_, _)
FindAll(text, from) ==
    LET starts == {i \in from..Len(text) : MatchEnd(text, i) # 0}
    IN  IF starts = {} THEN <<>>
        ELSE LET i == CHOOSE a \in starts : \A b \in starts : a <= b
             IN  <<Slice(text, i, MatchEnd(text, i))>>
                   \o FindAll(text, MatchEnd(text, i) + 1)

\* json_matches.sort(key=len, reverse=True): longest first, matches of the
\* same length in the order they had
RECURSIVE SortByLen(_)
SortByLen(ms) ==
    IF ms = <<>> THEN <<>>
    ELSE LET longest == CHOOSE i \in 1..Len(ms) :
                          /\ \A j \in 1..Len(ms) : Len(ms[j]) <= Len(ms[i])
                          /\ \A j \in 1..(i-1) : Len(ms[j]) < Len(ms[i])
         IN  <<ms[longest]>>
               \o SortByLen(Slice(ms, 1, longest - 1) \o Slice(ms, longest + 1, Len(ms)))

\* the loop over the sorted matches: the parse of the first one that parses
RECURSIVE FirstParsed(_, _)
FirstParsed(ms, schema) ==
    IF ms = <<>> THEN ParseError
    ELSE IF Parse(Head(ms), schema) # ParseError THEN Parse(Head(ms), schema)
    ELSE FirstParsed(Tail(ms), schema)

RegexSalvage(text, schema) == FirstParsed(SortByLen(FindAll(text, 1)), schema)

\* C26: when the cleaned text does not parse and one of its brace-delimited
\* candidates does, _run_raw returns the parse of the first candidate that
\* parses, the candidates taken longest first and, among equally long ones,
\* leftmost first.
C26_SalvageLongestFirst ==
    (/\ Done
     /\ raw.kind = "return"
     /\ Parse(content, TargetSchema(caller)) = ParseError
     /\ RegexSalvage(content, TargetSchema(caller)) # ParseError) =>
      raw = Return(TargetSchema(caller),
                   RegexSalvage(content, TargetSchema(caller)))

\* STRATEGY 7: json.loads(content) and the parse of what it loaded
GenericSalvage(text, schema) ==
    IF IsJsonObject(text) THEN Parse(text, schema) ELSE ParseError

\* len(content), in characters: a token counts for the characters it stands
\* for (PROSE for a sentence, the bodies for the members of an object)
Width(token) ==
    CASE token \in {"NL", "SP", "EMOJI", "DASH", "PIPE", "LB", "RB"} -> 1
      [] token \in {"HEAD", "RULE", "F"} -> 3
      [] token = "FJ" -> 7
      [] token \in {"PROPS", "E429"} -> 13
      [] token = "PROSE" -> 60
      [] OTHER -> 120

RECURSIVE CharLen(_)
CharLen(text) == IF text = <<>> THEN 0 ELSE Width(Head(text)) + CharLen(Tail(text))

\* STRATEGY 8: `if len(content) > 50`
MinRepairLen == 50

\* strict parse, regex salvage and generic salvage all fail on text
Unparsable(text, schema) ==
    /\ Parse(text, schema) = ParseError
    /\ RegexSalvage(text, schema) = ParseError
    /\ GenericSalvage(text, schema) = ParseError

C28_RepairCleanedAsMain ==
    (Done /\ caller = "repair_json" /\ LastCall.outcome = "text") =>
      content = CleanContent(LastCall.text)

\* C29: the first gateway call of a request goes to self.llm and is not a
\* retry; a call goes to the fallback model only as the retry that follows
\* a failed call; every call after the first goes to the fallback model.
C29_TierOrder ==
    \A i \in 1..Len(Calls) :
      /\ i = 1 => (Calls[i].llm = Llm(provider) /\ ~Calls[i].is_retry)
      /\ Calls[i].llm = "fallback_llm" =>
           (i > 1 /\ Calls[i].is_retry /\ Calls[i-1].outcome = "error")
      /\ i > 1 => Calls[i].llm = "fallback_llm"

\* a request configured for gemini has failed once and has then been served
\* by the fallback model
C29_Witness ==
    /\ Done
    /\ Len(Calls) = 2
    /\ Calls[1].llm = "gemini_llm"
    /\ Calls[2].llm = "fallback_llm"
    /\ raw.kind = "return"

\* the gateway call failed and its message names a rate limit
RateLimitedCall(e) ==
    /\ IsInvoke(e)
    /\ e.outcome = "error"
    /\ (Contains(LowerMsg(e.error), "429") \/ Contains(LowerMsg(e.error), "rate limit"))

\* C30: every sleep of a request comes right after a gateway call that failed
\* with a rate-limit error, or is the 10 s sleep that follows such a sleep;
\* a call that returned text, whatever the text says, is followed by no sleep.
C30_SleepOnlyAfterRateLimit ==
    \A i \in 1..Len(trace) :
      IsSleep(trace[i]) =>
        /\ i > 1
        /\ \/ RateLimitedCall(trace[i-1])
           \/ /\ i > 2
              /\ IsSleep(trace[i-1])
              /\ RateLimitedCall(trace[i-2])
              /\ trace[i].secs = ExtraSleep

\* the first call was rate limited and slept on; the fallback model then
\* answered a text that names a rate limit, and no sleep followed
C30_Witness ==
    /\ Done
    /\ Len(Calls) = 2
    /\ Len(Sleeps) = 1
    /\ RateLimitedCall(Calls[1])
    /\ Contains(Calls[2].text, "E429")

====
